---- MODULE Spec2Model ----
(***************************************************************************)
(* Model of the chat pipeline of backend/server.py (TripMate):             *)
(* the /chat handler (conversation store, context replay, prompt           *)
(* composition, LLM call, response extraction).                            *)
(*                                                                         *)
(* Text is modelled as a sequence of tokens.  A token is a piece of text   *)
(* that none of the string operations of the handler ever cuts in two:     *)
(* the fence (three backticks), the word json, a brace, a comma, a newline, *)
(* a complete JSON member (a key with its value), or a run of prose.     *)
(* str.find / in / startswith / split / strip are modelled on tokens.      *)
(*                                                                         *)
(* Lines 699-717 of server.py (building openai_messages and the LLM call)  *)
(* are dedented in the source file; they are modelled as the part of chat  *)
(* between prompt composition and the construction of ai_message.          *)
(***************************************************************************)
EXTENDS Integers, Sequences, FiniteSets, TLC

\* ------------------------------------------------------------------ bounds
MaxLen == 6          \* longest LLM reply (in tokens) of the exhaustive specification
MaxTurnsSeq == 7     \* most stored turns in the sequential specification
MaxTurns == 4        \* most stored turns in the concurrent specification
MaxTurnsReplay == 8  \* most stored turns in the specification of the replay

\* ------------------------------------------------------------------ tokens
\* the fence of three backticks (a TLA+ string cannot hold a backtick)
FENCE == "'''"
JSON == "json"
LBRACE == "{"
RBRACE == "}"
COMMA == ","
NL == "\n"
SPACE == " "
ARRAY == "[1]"
FROM_AUCKLAND == "\"from\":\"Auckland\""
TO_QUEENSTOWN == "\"to\":\"Queenstown\""
TO_PAIHIA == "\"to\":\"Paihia\""
TO_EMPTY == "\"to\":\"\""

None == "None"

PairTokens == {FROM_AUCKLAND, TO_QUEENSTOWN, TO_PAIHIA, TO_EMPTY}

PairKey(t) == IF t = FROM_AUCKLAND THEN "from" ELSE "to"

PairValue(t) ==
    CASE t = FROM_AUCKLAND -> "Auckland"
      [] t = TO_QUEENSTOWN -> "Queenstown"
      [] t = TO_PAIHIA -> "Paihia"
      [] OTHER -> ""

\* str.strip() removes these from both ends; json.loads skips them between items
IsSpace(t) == t \in {NL, SPACE}

\* ------------------------------------------------------------ str methods
Min(S) == CHOOSE x \in S : \A y \in S : x <= y

Max(S) == CHOOSE x \in S : \A y \in S : x >= y

\* s.strip()
Strip(s) ==
    LET keep == {i \in DOMAIN s : ~IsSpace(s[i])}
    IN  IF keep = {} THEN <<>> ELSE SubSeq(s, Min(keep), Max(keep))

\* s.startswith(p)
StartsWith(s, p) == Len(s) >= Len(p) /\ SubSeq(s, 1, Len(p)) = p

\* s.find(p, start), 1-based; 0 stands for -1 of Python
Find(s, p, start) ==
    LET hits == {i \in start..(Len(s) - Len(p) + 1) : SubSeq(s, i, i + Len(p) - 1) = p}
    IN  IF hits = {} THEN 0 ELSE Min(hits)

\* s.rfind(p), 1-based; 0 stands for -1 of Python
RFind(s, p) ==
    LET hits == {i \in 1..(Len(s) - Len(p) + 1) : SubSeq(s, i, i + Len(p) - 1) = p}
    IN  IF hits = {} THEN 0 ELSE Max(hits)

\* p in s
Contains(s, p) == Find(s, p, 1) # 0

\* s[i:] with a 1-based first index
From(s, i) == SubSeq(s, i, Len(s))

\* the marker: a fence directly followed by json
MARKER == <<FENCE, JSON>>

\* ------------------------------------------------------------- json.loads
Null == [kind |-> "null"]

JsonError == [kind |-> "error"]

NoSpace(s) == SelectSeq(s, LAMBDA t : ~IsSpace(t))

\* the members between the braces: member ("," member)*
IsMembers(m) ==
    \/ m = <<>>
    \/ /\ Len(m) % 2 = 1
       /\ \A i \in DOMAIN m : IF i % 2 = 1 THEN m[i] \in PairTokens ELSE m[i] = COMMA

\* a dict keeps the last value of a repeated key
DictOf(m) ==
    LET keys == {PairKey(m[i]) : i \in {j \in DOMAIN m : j % 2 = 1}}
        last(k) == Max({i \in DOMAIN m : i % 2 = 1 /\ PairKey(m[i]) = k})
    IN  [kind |-> "dict", fields |-> [k \in keys |-> PairValue(m[last(k)])]]

\* json.loads(text): a dict, a list, or JsonError for the JSONDecodeError
JsonLoads(text) ==
    LET t == NoSpace(text)
    IN  IF t = <<ARRAY>> THEN [kind |-> "list"]
        ELSE IF /\ Len(t) >= 2
                /\ t[1] = LBRACE
                /\ t[Len(t)] = RBRACE
                /\ IsMembers(SubSeq(t, 2, Len(t) - 1))
             THEN DictOf(SubSeq(t, 2, Len(t) - 1))
             ELSE JsonError

\* d.get(k): the value, or None when the key is absent
Get(d, k) == IF k \in DOMAIN d.fields THEN d.fields[k] ELSE None

\* Python truthiness of d.get(k): neither None nor the empty string
Truthy(v) == v # None /\ v # ""

\* ------------------------------------------------------ Response Extractor
\* variant: the block is closed at the last fence of the reply, not the next one
FencedJsonBranch_LastFence(cleaned) ==
    LET json_start == Find(cleaned, MARKER, 1)
        json_content == From(cleaned, json_start + 2)
        json_end == RFind(json_content, <<FENCE>>)
    IN  IF json_start # 0 /\ json_end # 0
        THEN Strip(SubSeq(json_content, 1, json_end - 1))
        ELSE cleaned

\* the fenced-json branch: text after the first marker up to the next fence
FencedJsonBranch(cleaned) ==
    LET json_start == Find(cleaned, MARKER, 1)
        json_content == From(cleaned, json_start + 2)
        json_end == Find(json_content, <<FENCE>>, 1)
    IN  IF json_start # 0 /\ json_end # 0
        THEN Strip(SubSeq(json_content, 1, json_end - 1))
        ELSE cleaned

\* the generic-fence branch: drop the first line and the trailing fence
GenericFenceBranch(cleaned) ==
    LET nl == Find(cleaned, <<NL>>, 1)
        rest == IF nl # 0 THEN From(cleaned, nl + 1) ELSE cleaned
        last == RFind(rest, <<FENCE>>)
    IN  Strip(IF last # 0 THEN SubSeq(rest, 1, last - 1) ELSE rest)

\* the mixed-content branch: first opening brace to last closing brace
BraceSpanBranch(cleaned) ==
    LET json_start == Find(cleaned, <<LBRACE>>, 1)
        json_end == RFind(cleaned, <<RBRACE>>)
    IN  IF json_start # 0 /\ json_end # 0 /\ json_end > json_start
        THEN SubSeq(cleaned, json_start, json_end)
        ELSE cleaned

\* variant: json.loads is attempted whatever the text starts with
ParseTripData_NoGuard(cleaned_response) ==
    LET v == JsonLoads(cleaned_response)
    IN  IF v.kind = "error" THEN Null ELSE v

\* variant: the JSONDecodeError is not caught
ParseTripData_Raises(cleaned_response) ==
    IF StartsWith(cleaned_response, <<LBRACE>>)
    THEN JsonLoads(cleaned_response)
    ELSE Null

\* json.loads under the startswith guard; an exception leaves trip_data None
ParseTripData(cleaned_response) ==
    IF StartsWith(cleaned_response, <<LBRACE>>)
    THEN LET v == JsonLoads(cleaned_response)
         IN  IF v.kind = "error" THEN Null ELSE v
    ELSE Null

\* variant: the brace span is looked for before the fences
CleanResponse_BraceFirst(response) ==
    LET cleaned_response == Strip(response)
    IN  IF Contains(cleaned_response, <<LBRACE>>)
        THEN BraceSpanBranch(cleaned_response)
        ELSE IF Contains(cleaned_response, MARKER)
             THEN FencedJsonBranch(cleaned_response)
             ELSE IF StartsWith(cleaned_response, <<FENCE>>)
                  THEN GenericFenceBranch(cleaned_response)
                  ELSE cleaned_response

\* the three reply shapes, first match wins
CleanResponse(response) ==
    LET cleaned_response == Strip(response)
    IN  IF Contains(cleaned_response, MARKER)
        THEN FencedJsonBranch(cleaned_response)
        ELSE IF StartsWith(cleaned_response, <<FENCE>>)
             THEN GenericFenceBranch(cleaned_response)
             ELSE IF Contains(cleaned_response, <<LBRACE>>)
                  THEN BraceSpanBranch(cleaned_response)
                  ELSE cleaned_response

ExtractTripData(response) == ParseTripData(CleanResponse(response))

\* -------------------------------------------------------- Context Tracker
\* the payload the replay reads from one assistant turn (Null: no branch
\* applies; JsonError: json.loads raised)
TrackerPayload(msg_content) ==
    LET content == Strip(msg_content)
    IN  IF Contains(content, MARKER)
        THEN LET json_start == Find(content, MARKER, 1) + 2
                 json_end == Find(content, <<FENCE>>, json_start)
             IN  IF json_end # 0
                 THEN JsonLoads(Strip(SubSeq(content, json_start, json_end - 1)))
                 ELSE Null
        ELSE IF StartsWith(content, <<LBRACE>>)
             THEN JsonLoads(content)
             ELSE Null

EmptyContext ==
    [conversation_context |-> <<>>,
     current_destination |-> None,
     current_origin |-> None,
     last_trip_json |-> Null]

\* variant: a destination or origin already recovered is kept
ReplayStep_FirstWins(ctx, msg) ==
    LET line == <<msg.role, ": ">> \o msg.content \o <<NL>>
        trip_json == IF msg.role = "assistant" THEN TrackerPayload(msg.content) ELSE Null
        hasTo == /\ trip_json.kind = "dict" /\ Truthy(Get(trip_json, "to"))
                 /\ ctx.current_destination = None
        hasFrom == /\ trip_json.kind = "dict" /\ Truthy(Get(trip_json, "from"))
                   /\ ctx.current_origin = None
    IN  [conversation_context |-> ctx.conversation_context \o line,
         current_destination |-> IF hasTo THEN Get(trip_json, "to") ELSE ctx.current_destination,
         current_origin |-> IF hasFrom THEN Get(trip_json, "from") ELSE ctx.current_origin,
         last_trip_json |-> IF hasTo THEN trip_json ELSE ctx.last_trip_json]

\* one iteration of the loop over messages[:-1]; a payload that is not a
\* dict makes trip_json.get raise, which the except clause swallows
\* variant: a reply whose extraction fails clears what was recovered so far
ReplayStep_ResetsOnFailure(ctx, msg) ==
    LET line == <<msg.role, ": ">> \o msg.content \o <<NL>>
        trip_json == IF msg.role = "assistant" THEN TrackerPayload(msg.content) ELSE Null
        failed == msg.role = "assistant" /\ trip_json.kind # "dict"
        hasTo == trip_json.kind = "dict" /\ Truthy(Get(trip_json, "to"))
        hasFrom == trip_json.kind = "dict" /\ Truthy(Get(trip_json, "from"))
    IN  [conversation_context |-> ctx.conversation_context \o line,
         current_destination |-> IF hasTo THEN Get(trip_json, "to")
                                 ELSE IF failed THEN None ELSE ctx.current_destination,
         current_origin |-> IF hasFrom THEN Get(trip_json, "from")
                            ELSE IF failed THEN None ELSE ctx.current_origin,
         last_trip_json |-> IF hasTo THEN trip_json
                            ELSE IF failed THEN Null ELSE ctx.last_trip_json]

ReplayStep(ctx, msg) ==
    LET line == <<msg.role, ": ">> \o msg.content \o <<NL>>
        trip_json == IF msg.role = "assistant" THEN TrackerPayload(msg.content) ELSE Null
        hasTo == trip_json.kind = "dict" /\ Truthy(Get(trip_json, "to"))
        hasFrom == trip_json.kind = "dict" /\ Truthy(Get(trip_json, "from"))
    IN  [conversation_context |-> ctx.conversation_context \o line,
         current_destination |-> IF hasTo THEN Get(trip_json, "to") ELSE ctx.current_destination,
         current_origin |-> IF hasFrom THEN Get(trip_json, "from") ELSE ctx.current_origin,
         last_trip_json |-> IF hasTo THEN trip_json ELSE ctx.last_trip_json]

\* the for loop over the prior turns, first to last: the turns of the
\* first half, then those of the second half from the context the first
\* half ended in (mid is that context, computed before the second half)
RECURSIVE Replay(_, _)
Replay(ctx, msgs) ==
    IF msgs = <<>> THEN ctx
    ELSE IF Len(msgs) = 1 THEN ReplayStep(ctx, msgs[1])
    ELSE LET half == Len(msgs) \div 2
         IN  CHOOSE after \in {Replay(mid, SubSeq(msgs, half + 1, Len(msgs))) :
                                  mid \in {Replay(ctx, SubSeq(msgs, 1, half))}} : TRUE

\* messages[:-1]
ButLast(msgs) == SubSeq(msgs, 1, Len(msgs) - 1)

\* messages[-n:]
LastN(msgs, n) == SubSeq(msgs, IF Len(msgs) > n THEN Len(msgs) - n + 1 ELSE 1, Len(msgs))

RecoverContext(messages) == Replay(EmptyContext, ButLast(messages))

\* --------------------------------------------------------- Prompt Composer
MSG_PLAN == "Plan a 3 day TRIP to Queenstown"
MSG_HOTELS == "show me more hotels"
PROSE_ROUTE == "Here is your Route:"
PROSE_SURE == "Sure!"

\* str.lower() of a token
Lower(t) ==
    CASE t = MSG_PLAN -> "plan a 3 day trip to queenstown"
      [] t = PROSE_ROUTE -> "here is your route:"
      [] t = PROSE_SURE -> "sure!"
      [] t = FROM_AUCKLAND -> "\"from\":\"auckland\""
      [] t = TO_QUEENSTOWN -> "\"to\":\"queenstown\""
      [] t = TO_PAIHIA -> "\"to\":\"paihia\""
      [] t = "Kia ora!" -> "kia ora!"
      [] t = "Which region?" -> "which region?"
      [] t = "North Island" -> "north island"
      [] t = "South Island" -> "south island"
      [] t = "Let me know." -> "let me know."
      [] OTHER -> t

\* the tokens whose text holds the substring trip, and those holding route
HasTrip(t) == t = "plan a 3 day trip to queenstown"

HasRoute(t) == t = "here is your route:"

\* 'trip' in content.lower() or 'route' in content.lower()
HasKeyword(msg_content) ==
    \E i \in DOMAIN msg_content :
        HasTrip(Lower(msg_content[i])) \/ HasRoute(Lower(msg_content[i]))

\* s.split('\n'): the pieces between the line breaks, one more than there
\* are line breaks
SplitLines(s) ==
    LET breaks == {i \in DOMAIN s : s[i] = NL}
        rank == [i \in breaks |-> Cardinality({j \in breaks : j < i})]
        at == [k \in 1..Cardinality(breaks) |-> CHOOSE i \in breaks : rank[i] = k - 1]
    IN  [k \in 1..Cardinality(breaks) + 1 |->
            SubSeq(s, IF k = 1 THEN 1 ELSE at[k - 1] + 1,
                      IF k = Cardinality(breaks) + 1 THEN Len(s) ELSE at[k] - 1)]

RECURSIVE JoinLines(_)
\* '\n'.join(lines)
JoinLines(lines) ==
    IF lines = <<>> THEN <<>>
    ELSE IF Len(lines) = 1 THEN lines[1]
    ELSE lines[1] \o <<NL>> \o JoinLines(Tail(lines))

RecentLines == 6

RecentTurns == 5

RecentContext(conversation_context) ==
    JoinLines(LastN(SplitLines(conversation_context), RecentLines))

Tomorrow(today) ==
    IF today = "November 05, 2026" THEN "November 06, 2026" ELSE "November 07, 2026"

BASE_HEAD == "Kia Ora! You are TripMate ... TODAY'S DATE: "
BASE_DATES == " (Use this to calculate trip dates starting from tomorrow: "
BASE_RULES == ") ... Example for \"more hotels\" in NZ: {\"from\": \"Auckland\", \"to\": \"Queenstown\", ...} ..."

BasePrompt(today) == <<BASE_HEAD, today, BASE_DATES, Tomorrow(today), BASE_RULES>>

DestinationContext(current_origin, current_destination) ==
    IF Truthy(current_destination)
    THEN <<"\nCURRENT NZ TRIP DESTINATION: ", current_destination,
           "\nCURRENT NZ TRIP ORIGIN: ", IF Truthy(current_origin) THEN current_origin ELSE "Unknown",
           "\n\n*** KIWI FOLLOW-UP RULES ***\nThe user is asking about the trip to \"", current_destination,
           "\". You MUST:\n1. ALWAYS include \"from\": \"", current_origin,
           "\", \"to\": \"", current_destination,
           "\" in your JSON response - these fields are REQUIRED!\n2. ... IN or NEAR \"", current_destination,
           "\"\n3. ... places/activities in \"", current_destination,
           "\" area\n4. ... restaurants/cafes in \"", current_destination,
           "\"\n5. ...\n6. ...\nREQUIRED JSON FIELDS FOR FOLLOW-UP: Always include \"from\", \"to\", \"duration\" even for partial updates!\n">>
    ELSE <<>>

RULES_PRESERVE_FROM == "\n\nIMPORTANT CONTEXT RULES:\n- ALWAYS preserve \"from\": \""
RULES_PRESERVE_TO == "\", \"to\": \""
PLAIN_CONTEXT == "\n\nCONTEXT:\n"

\* variant: the two interpolated fields are exchanged
ContinuityPrompt_SwapsPair(base, ctx, recent_context, message) ==
    base \o
    <<RULES_PRESERVE_FROM, ctx.current_destination, RULES_PRESERVE_TO, ctx.current_origin,
      "\" in your JSON response!\n- ...\n">>
    \o DestinationContext(ctx.current_origin, ctx.current_destination)
    \o <<"\n\nCONVERSATION HISTORY:\n">> \o recent_context
    \o <<"\n\nUser's current request: ">> \o message
    \o <<"\nRemember: For \"", ctx.current_destination, "\" - use ONLY real, Google-searchable names! ...">>

\* the follow-up branch: rules naming the recovered pair, the destination
\* block, the history excerpt and the request
ContinuityPrompt(base, ctx, recent_context, message) ==
    base \o
    <<RULES_PRESERVE_FROM, ctx.current_origin,
      RULES_PRESERVE_TO, ctx.current_destination,
      "\" in your JSON response!\n- ... KEEP the same from/to locations (", ctx.current_origin,
      " to ", ctx.current_destination,
      "), just change duration ...\n- ... ADD more places to existing trip in ", ctx.current_destination,
      ", keep from/to/duration/routes same\n- ... ADD amenities to existing trip near ", ctx.current_destination,
      "\n- ... ADD 5-6 MORE REAL hotels/motels/lodges in ", ctx.current_destination,
      " area. ...\n- NEVER create a completely different trip unless user explicitly mentions NEW cities\n">>
    \o DestinationContext(ctx.current_origin, ctx.current_destination)
    \o <<"\n\nCONVERSATION HISTORY:\n">> \o recent_context
    \o <<"\n\nUser's current request: ">> \o message
    \o <<"\nRemember: For \"", ctx.current_destination, "\" - use ONLY real, Google-searchable names! ...">>

PlainContextPrompt(base, recent_context, message) ==
    base \o <<PLAIN_CONTEXT>> \o recent_context \o <<"\n\nRespond to: ">> \o message

\* variant: every fetched turn is searched, not the last five
IsFollowUp_WholeHistory(messages) ==
    messages # <<>> /\ \E i \in DOMAIN messages : HasKeyword(messages[i].content)

\* the any(...) over messages[-5:]
IsFollowUp(messages) ==
    messages # <<>> /\ \E i \in DOMAIN LastN(messages, RecentTurns) :
                            HasKeyword(LastN(messages, RecentTurns)[i].content)

\* variant: the prompt also names the session the turns were fetched for
ComposePrompt_NamesSession(today, ctx, messages, message) ==
    (IF ctx.conversation_context # <<>>
     THEN LET recent_context == RecentContext(ctx.conversation_context)
          IN  IF IsFollowUp(messages)
              THEN ContinuityPrompt(BasePrompt(today), ctx, recent_context, message)
              ELSE PlainContextPrompt(BasePrompt(today), recent_context, message)
     ELSE BasePrompt(today))
    \o <<"\nSession: ", messages[1].session_id>>

\* lines 396-403 and 650-697: the base prompt of the day, then one of the
\* two context blocks when earlier turns were replayed
ComposePrompt(today, ctx, messages, message) ==
    IF ctx.conversation_context # <<>>
    THEN LET recent_context == RecentContext(ctx.conversation_context)
         IN  IF IsFollowUp(messages)
             THEN ContinuityPrompt(BasePrompt(today), ctx, recent_context, message)
             ELSE PlainContextPrompt(BasePrompt(today), recent_context, message)
    ELSE BasePrompt(today)

\* ------------------------------------------------------ Conversation Store
VARIABLES
    store,            \* db.messages, in insertion order
    clock,            \* datetime.now(): read by every Message constructed
    pc,               \* where each chat request stands
    request,          \* the ChatRequest of each slot
    user_message,     \* the Message built from the request
    messages,         \* the history the request fetched
    context,          \* what the replay of messages[:-1] recovered
    system_prompt,    \* the prompt composed for the LLM
    openai_messages,  \* the role/content list sent after the system prompt
    llm_calls,        \* calls of openai_client...create made by the request
    response,         \* the completion text
    ai_message,       \* the Message built from the completion
    chat_response,    \* the ChatResponse returned (session_id, message, trip_data)
    outcome,          \* "ok" (a ChatResponse), "http_500", or "none"
    history           \* the list a GET /chat/{session_id} is returning

vars == <<store, clock, pc, request, user_message, messages, context, system_prompt,
          openai_messages, llm_calls, response, ai_message, chat_response, outcome, history>>

Slots == 1..2

FetchLimit == 100

ListLimit == 1000

NoHistory == [session_id |-> "", turns |-> <<>>]

NoMessage == [id |-> 0, session_id |-> "", role |-> "", content |-> <<>>, timestamp |-> 0]

NoRequest == [session_id |-> "", message |-> <<>>]

NoResponse == [session_id |-> "", message |-> <<>>, trip_data |-> Null]

\* Message(session_id=..., role=..., content=...): the timestamp is the clock
\* at construction; the uuid4 id, fresh for every Message, is modelled by the
\* same value
Message(session_id, role, content, now) ==
    [id |-> now, session_id |-> session_id, role |-> role, content |-> content, timestamp |-> now]

\* .sort("timestamp", 1): every document stands after those with a smaller
\* timestamp (and after those with the same one that were found before it)
SortByTimestamp(docs) ==
    LET rank == [i \in DOMAIN docs |->
                    Cardinality({j \in DOMAIN docs :
                                    \/ docs[j].timestamp < docs[i].timestamp
                                    \/ docs[j].timestamp = docs[i].timestamp /\ j < i})]
    IN  [k \in DOMAIN docs |-> docs[CHOOSE i \in DOMAIN docs : rank[i] = k - 1]]

\* variant: the find carries no filter, the turns of every session are found
FindBySession_NoFilter(docs, session_id, limit) ==
    LET found == SortByTimestamp(docs)
    IN  SubSeq(found, 1, IF Len(found) > limit THEN limit ELSE Len(found))

\* db.messages.find({"session_id": s}).sort("timestamp", 1).to_list(limit)
FindBySession(docs, session_id, limit) ==
    LET found == SortByTimestamp(SelectSeq(docs, LAMBDA m : m.session_id = session_id))
    IN  SubSeq(found, 1, IF Len(found) > limit THEN limit ELSE Len(found))

\* the role/content pairs appended to openai_messages after the system entry
HistoryEntries(msgs) == [i \in DOMAIN msgs |-> [role |-> msgs[i].role, content |-> msgs[i].content]]

\* turns the requests under way may still insert
Pending ==
    LET owes(q) == IF pc[q] = "insert_user" THEN 2
                   ELSE IF pc[q] \in {"find", "llm", "insert_ai"} THEN 1 ELSE 0
    IN  owes(1) + owes(2)

Init ==
    /\ store = <<>>
    /\ clock = 0
    /\ pc = [r \in Slots |-> "idle"]
    /\ request = [r \in Slots |-> NoRequest]
    /\ user_message = [r \in Slots |-> NoMessage]
    /\ messages = [r \in Slots |-> <<>>]
    /\ context = [r \in Slots |-> EmptyContext]
    /\ system_prompt = [r \in Slots |-> <<>>]
    /\ openai_messages = [r \in Slots |-> <<>>]
    /\ llm_calls = [r \in Slots |-> 0]
    /\ response = [r \in Slots |-> <<>>]
    /\ ai_message = [r \in Slots |-> NoMessage]
    /\ chat_response = [r \in Slots |-> NoResponse]
    /\ outcome = [r \in Slots |-> "none"]
    /\ history = NoHistory

\* POST /chat arrives: user_message is built and its insert is issued
ChatBegin(r, sessions, texts, maxTurns) ==
    /\ pc[r] \in {"idle", "done"}
    /\ Len(store) + Pending + 2 <= maxTurns
    /\ \E s \in sessions, text \in texts :
          /\ request' = [request EXCEPT ![r] = [session_id |-> s, message |-> <<text>>]]
          /\ user_message' = [user_message EXCEPT ![r] = Message(s, "user", <<text>>, clock + 1)]
    /\ clock' = clock + 1
    /\ pc' = [pc EXCEPT ![r] = "insert_user"]
    /\ messages' = [messages EXCEPT ![r] = <<>>]
    /\ context' = [context EXCEPT ![r] = EmptyContext]
    /\ system_prompt' = [system_prompt EXCEPT ![r] = <<>>]
    /\ openai_messages' = [openai_messages EXCEPT ![r] = <<>>]
    /\ llm_calls' = [llm_calls EXCEPT ![r] = 0]
    /\ response' = [response EXCEPT ![r] = <<>>]
    /\ ai_message' = [ai_message EXCEPT ![r] = NoMessage]
    /\ chat_response' = [chat_response EXCEPT ![r] = NoResponse]
    /\ outcome' = [outcome EXCEPT ![r] = "none"]
    /\ UNCHANGED store
    /\ UNCHANGED history

\* await db.messages.insert_one(msg_dict)
InsertUser(r) ==
    /\ pc[r] = "insert_user"
    /\ store' = Append(store, user_message[r])
    /\ pc' = [pc EXCEPT ![r] = "find"]
    /\ UNCHANGED <<clock, request, user_message, messages, context, system_prompt,
                   openai_messages, llm_calls, response, ai_message, chat_response, outcome>>
    /\ UNCHANGED history

\* the find completes; replay, prompt composition and the building of
\* openai_messages run without suspending, then the LLM call is issued
\* variant: the replay consumes the turns it has read from the collection
FetchAndCall_DrainsStore(r, dates) ==
    /\ pc[r] = "find"
    /\ \E today \in dates :
          LET fetched == FindBySession(store, request[r].session_id, FetchLimit)
              ctx == RecoverContext(fetched)
          IN  /\ messages' = [messages EXCEPT ![r] = fetched]
              /\ context' = [context EXCEPT ![r] = ctx]
              /\ system_prompt' = [system_prompt EXCEPT ![r] =
                                      ComposePrompt(today, ctx, fetched, request[r].message)]
              /\ openai_messages' = [openai_messages EXCEPT ![r] = HistoryEntries(fetched)]
              /\ store' = SelectSeq(store, LAMBDA m : m \notin {fetched[i] : i \in 1..Len(fetched) - 1})
    /\ llm_calls' = [llm_calls EXCEPT ![r] = @ + 1]
    /\ pc' = [pc EXCEPT ![r] = "llm"]
    /\ UNCHANGED <<clock, request, user_message, response, ai_message, chat_response, outcome>>
    /\ UNCHANGED history

\* lines 345-717: the find, the replay of the fetched turns, the prompt and
\* the message list, up to the call of the completion
FetchAndCall(r, dates) ==
    /\ pc[r] = "find"
    /\ \E today \in dates :
          LET fetched == FindBySession(store, request[r].session_id, FetchLimit)
              ctx == RecoverContext(fetched)
          IN  /\ messages' = [messages EXCEPT ![r] = fetched]
              /\ context' = [context EXCEPT ![r] = ctx]
              /\ system_prompt' = [system_prompt EXCEPT ![r] =
                                      ComposePrompt(today, ctx, fetched, request[r].message)]
              /\ openai_messages' = [openai_messages EXCEPT ![r] = HistoryEntries(fetched)]
    /\ llm_calls' = [llm_calls EXCEPT ![r] = @ + 1]
    /\ pc' = [pc EXCEPT ![r] = "llm"]
    /\ UNCHANGED <<store, clock, request, user_message, response, ai_message, chat_response, outcome>>
    /\ UNCHANGED history

\* the completion (a head followed by a tail) arrives: ai_message is built
\* and its insert is issued
LLMReply(r, heads, tails) ==
    /\ pc[r] = "llm"
    /\ \E head \in heads, tail \in tails :
          /\ response' = [response EXCEPT ![r] = head \o tail]
          /\ ai_message' = [ai_message EXCEPT ![r] =
                               Message(request[r].session_id, "assistant", head \o tail, clock + 1)]
    /\ clock' = clock + 1
    /\ pc' = [pc EXCEPT ![r] = "insert_ai"]
    /\ UNCHANGED <<store, request, user_message, messages, context, system_prompt,
                   openai_messages, llm_calls, chat_response, outcome>>
    /\ UNCHANGED history

\* variant: the failure is answered with a stored assistant turn
LLMError_StoresApology(r) ==
    /\ pc[r] = "llm"
    /\ store' = Append(store, Message(request[r].session_id, "assistant", <<PROSE_SURE>>, clock + 1))
    /\ clock' = clock + 1
    /\ outcome' = [outcome EXCEPT ![r] = "http_500"]
    /\ pc' = [pc EXCEPT ![r] = "done"]
    /\ UNCHANGED <<request, user_message, messages, context, system_prompt,
                   openai_messages, llm_calls, response, ai_message, chat_response>>
    /\ UNCHANGED history

\* variant: the failed call is made again
LLMError_Retries(r) ==
    /\ pc[r] = "llm"
    /\ llm_calls[r] < 2
    /\ pc' = [pc EXCEPT ![r] = "find"]
    /\ UNCHANGED <<store, clock, request, user_message, messages, context, system_prompt,
                   openai_messages, llm_calls, response, ai_message, chat_response, outcome>>
    /\ UNCHANGED history

\* the LLM call raises: except Exception turns it into HTTPException(500)
LLMError(r) ==
    /\ pc[r] = "llm"
    /\ outcome' = [outcome EXCEPT ![r] = "http_500"]
    /\ pc' = [pc EXCEPT ![r] = "done"]
    /\ UNCHANGED <<store, clock, request, user_message, messages, context, system_prompt,
                   openai_messages, llm_calls, response, ai_message, chat_response>>
    /\ UNCHANGED history

\* await db.messages.insert_one(ai_msg_dict), then extraction and the return.
\* An exception that leaves the extraction, or a trip_data that ChatResponse
\* rejects (not a dict), reaches the outer except clause: HTTPException(500).
InsertAssistant(r) ==
    /\ pc[r] = "insert_ai"
    /\ store' = Append(store, ai_message[r])
    /\ LET trip_data == ExtractTripData(response[r])
       IN  IF trip_data.kind \in {"null", "dict"}
           THEN /\ chat_response' = [chat_response EXCEPT ![r] =
                                        [session_id |-> request[r].session_id,
                                         message |-> response[r],
                                         trip_data |-> trip_data]]
                /\ outcome' = [outcome EXCEPT ![r] = "ok"]
           ELSE /\ outcome' = [outcome EXCEPT ![r] = "http_500"]
                /\ UNCHANGED chat_response
    /\ pc' = [pc EXCEPT ![r] = "done"]
    /\ UNCHANGED <<clock, request, user_message, messages, context, system_prompt,
                   openai_messages, llm_calls, response, ai_message>>
    /\ UNCHANGED history

\* a listing that writes the parsed turns back over the collection
GetChatHistory_WritesBack(session_id) ==
    /\ history' = [session_id |-> session_id,
                   turns |-> FindBySession(store, session_id, ListLimit)]
    /\ store' = FindBySession(store, session_id, ListLimit)
    /\ UNCHANGED <<clock, pc, request, user_message, messages, context, system_prompt,
                   openai_messages, llm_calls, response, ai_message, chat_response, outcome>>

\* a listing without the sort: the turns as the collection holds them
GetChatHistory_InsertionOrder(session_id) ==
    /\ history' = [session_id |-> session_id,
                   turns |-> SelectSeq(store, LAMBDA m : m.session_id = session_id)]
    /\ UNCHANGED <<store, clock, pc, request, user_message, messages, context, system_prompt,
                   openai_messages, llm_calls, response, ai_message, chat_response, outcome>>

\* GET /chat/{session_id}: the find completes and the list is returned; the
\* loop over it parses each isoformat timestamp back into the datetime it
\* was written from, which the model keeps as the same clock value
GetChatHistory(session_id) ==
    /\ history' = [session_id |-> session_id,
                   turns |-> FindBySession(store, session_id, ListLimit)]
    /\ UNCHANGED <<store, clock, pc, request, user_message, messages, context, system_prompt,
                   openai_messages, llm_calls, response, ai_message, chat_response, outcome>>

\* ----------------------------------------------------------- environments
Sessions == {"s1", "s2"}

Dates == {"November 05, 2026", "November 06, 2026"}

UserTexts == {MSG_PLAN, MSG_HOTELS}

REPLY_TRIP ==
    <<PROSE_ROUTE, NL, FENCE, JSON, NL, LBRACE, FROM_AUCKLAND, COMMA, TO_QUEENSTOWN, RBRACE, NL, FENCE>>

REPLY_PAIHIA == <<LBRACE, TO_PAIHIA, RBRACE>>

REPLY_EMPTY_TO == <<FENCE, JSON, LBRACE, TO_EMPTY, RBRACE, FENCE>>

REPLY_CHAT ==
    <<"Kia ora!", NL, "Which region?", NL, "North Island", NL, "South Island", NL, "Let me know.">>

SeqReplies == {REPLY_TRIP, REPLY_PAIHIA, REPLY_EMPTY_TO, REPLY_CHAT}

ConcReplies == {REPLY_PAIHIA, <<PROSE_SURE>>}

\* a friendly sentence followed by a bare object
REPLY_MIXED == <<PROSE_SURE, SPACE, LBRACE, FROM_AUCKLAND, COMMA, TO_PAIHIA, RBRACE>>

\* an object inside a fence that carries no language tag
REPLY_GENERIC == <<FENCE, NL, LBRACE, TO_QUEENSTOWN, RBRACE, NL, FENCE>>

\* a fenced json block holding an array
REPLY_LIST == <<PROSE_SURE, NL, FENCE, JSON, NL, ARRAY, NL, FENCE>>

\* an object cut off before its closing brace
REPLY_BROKEN == <<LBRACE, TO_PAIHIA>>

ReplayReplies ==
    {REPLY_TRIP, REPLY_PAIHIA, REPLY_MIXED, REPLY_GENERIC, REPLY_LIST, REPLY_BROKEN, <<PROSE_SURE>>}

Alphabet == {FENCE, JSON, LBRACE, RBRACE, TO_QUEENSTOWN, PROSE_SURE, NL, ARRAY}

\* the texts of lo to hi tokens
Texts(lo, hi) == UNION {[1..n -> Alphabet] : n \in lo..hi}

HeadLen == 3

\* overlapping requests on two sessions
Next ==
    \E r \in Slots :
        \/ ChatBegin(r, Sessions, UserTexts, MaxTurns)
        \/ InsertUser(r)
        \/ FetchAndCall(r, Dates)
        \/ LLMReply(r, ConcReplies, {<<>>})
        \/ LLMError(r)
        \/ InsertAssistant(r)

Spec == Init /\ [][Next]_vars

\* one session used sequentially
NextSeq ==
    \/ ChatBegin(1, {"s1"}, UserTexts, MaxTurnsSeq)
    \/ InsertUser(1)
    \/ FetchAndCall(1, {"November 05, 2026"})
    \/ LLMReply(1, SeqReplies, {<<>>})
    \/ LLMError(1)
    \/ InsertAssistant(1)

SpecSeq == Init /\ [][NextSeq]_vars

\* one request whose completion ranges over every text of at most MaxLen tokens
NextExtract ==
    \/ ChatBegin(1, {"s1"}, {MSG_PLAN}, 2)
    \/ InsertUser(1)
    \/ FetchAndCall(1, {"November 05, 2026"})
    \/ LLMReply(1, Texts(0, HeadLen), Texts(0, MaxLen - HeadLen))
    \/ LLMError(1)
    \/ InsertAssistant(1)

SpecExtract == Init /\ [][NextExtract]_vars

\* one session used by one request at a time, its replies of every shape
NextReplay ==
    \/ ChatBegin(1, {"s1"}, {MSG_HOTELS}, MaxTurnsReplay)
    \/ InsertUser(1)
    \/ FetchAndCall(1, {"November 05, 2026"})
    \/ LLMReply(1, ReplayReplies, {<<>>})
    \/ LLMError(1)
    \/ InsertAssistant(1)

SpecReplay == Init /\ [][NextReplay]_vars

\* the turns of a session that earlier requests have filled: a user turn and
\* the reply to it, n turns in all
OldTurns(n) ==
    [i \in 1..n |-> IF i % 2 = 1 THEN Message("s1", "user", <<MSG_HOTELS>>, i)
                                 ELSE Message("s1", "assistant", <<PROSE_SURE>>, i)]

\* the service comes up on a database whose session s1 holds as many turns
\* as one find of chat returns
InitLong ==
    /\ store = OldTurns(FetchLimit)
    /\ clock = FetchLimit
    /\ pc = [r \in Slots |-> "idle"]
    /\ request = [r \in Slots |-> NoRequest]
    /\ user_message = [r \in Slots |-> NoMessage]
    /\ messages = [r \in Slots |-> <<>>]
    /\ context = [r \in Slots |-> EmptyContext]
    /\ system_prompt = [r \in Slots |-> <<>>]
    /\ openai_messages = [r \in Slots |-> <<>>]
    /\ llm_calls = [r \in Slots |-> 0]
    /\ response = [r \in Slots |-> <<>>]
    /\ ai_message = [r \in Slots |-> NoMessage]
    /\ chat_response = [r \in Slots |-> NoResponse]
    /\ outcome = [r \in Slots |-> "none"]
    /\ history = NoHistory

\* a long session used by one request at a time
NextLong ==
    \/ ChatBegin(1, {"s1"}, UserTexts, FetchLimit + MaxTurns)
    \/ InsertUser(1)
    \/ FetchAndCall(1, {"November 05, 2026"})
    \/ LLMReply(1, ConcReplies, {<<>>})
    \/ LLMError(1)
    \/ InsertAssistant(1)

SpecLong == InitLong /\ [][NextLong]_vars

\* overlapping requests and listings of the sessions
NextList ==
    \/ \E r \in Slots :
          \/ ChatBegin(r, Sessions, {MSG_HOTELS}, MaxTurns)
          \/ InsertUser(r)
          \/ FetchAndCall(r, {"November 05, 2026"})
          \/ LLMReply(r, ConcReplies, {<<>>})
          \/ LLMError(r)
          \/ InsertAssistant(r)
    \/ \E s \in Sessions : GetChatHistory(s)

SpecList == Init /\ [][NextList]_vars

\* ------------------------------------------------------------------ claims
\* the request of slot r received a completion and has finished
Replied(r) == pc[r] = "done" /\ ai_message[r] # NoMessage

Count(s, t) == Cardinality({i \in DOMAIN s : s[i] = t})

\* C1: the three reply shapes are applied in a fixed precedence, first match
\* wins: a reply holding the fenced-json marker is decided by the fenced-json
\* branch; otherwise one starting with a fence by the generic-fence branch;
\* otherwise one holding an opening brace by the brace span.
C1_Precedence ==
    \A r \in Slots :
        Replied(r) =>
            LET c == Strip(response[r])
                hasMarker == \E i \in 1..(Len(c) - 1) : c[i] = FENCE /\ c[i + 1] = JSON
                startsFence == c # <<>> /\ c[1] = FENCE
                hasBrace == \E i \in DOMAIN c : c[i] = LBRACE
            IN  /\ outcome[r] = "ok"
                /\ hasMarker =>
                      chat_response[r].trip_data = ParseTripData(FencedJsonBranch(c))
                /\ ~hasMarker /\ startsFence =>
                      chat_response[r].trip_data = ParseTripData(GenericFenceBranch(c))
                /\ ~hasMarker /\ ~startsFence /\ hasBrace =>
                      chat_response[r].trip_data = ParseTripData(BraceSpanBranch(c))

\* a reply of two shapes whose lower-precedence branch would decide otherwise
C1_Witness ==
    \E r \in Slots :
        /\ Replied(r)
        /\ Contains(response[r], MARKER)
        /\ Contains(response[r], <<LBRACE>>)
        /\ chat_response[r].trip_data # ParseTripData(BraceSpanBranch(Strip(response[r])))
        /\ chat_response[r].trip_data.kind = "dict"

\* the first fenced-json block of a reply: its text, when it is closed
FirstBlock(reply) ==
    LET i == Min({k \in 1..(Len(reply) - 1) : reply[k] = FENCE /\ reply[k + 1] = JSON})
        j == Min({k \in (i + 2)..Len(reply) : reply[k] = FENCE})
    IN  SubSeq(reply, i + 2, j - 1)

HasClosedBlock(reply) ==
    \E i \in 1..(Len(reply) - 1) :
        /\ reply[i] = FENCE /\ reply[i + 1] = JSON
        /\ \A k \in 1..(i - 1) : ~(reply[k] = FENCE /\ reply[k + 1] = JSON)
        /\ \E j \in (i + 2)..Len(reply) : reply[j] = FENCE

C3_NoBraceNull ==
    \A r \in Slots :
        (Replied(r) /\ Count(response[r], LBRACE) = 0) =>
            outcome[r] = "ok" /\ chat_response[r].trip_data = Null

\* a fenced reply without an opening brace
C3_Witness ==
    \E r \in Slots :
        /\ Replied(r) /\ Count(response[r], LBRACE) = 0
        /\ Contains(response[r], MARKER)
        /\ Count(response[r], ARRAY) = 1
        /\ chat_response[r].trip_data = Null

\* the text the extractor hands to the parser is malformed or unbalanced
MalformedPayload(reply) ==
    LET payload == CleanResponse(reply)
    IN  \/ JsonLoads(payload).kind = "error"
        \/ Count(payload, LBRACE) # Count(payload, RBRACE)

\* C4: extraction failure is never an error of the request: for a reply whose
\* payload is malformed or has unbalanced braces, chat returns the raw reply
\* as message with trip_data = null and has stored the assistant turn.
C4_ExtractionFailureIsNull ==
    \A r \in Slots :
        (Replied(r) /\ MalformedPayload(response[r])) =>
            /\ outcome[r] = "ok"
            /\ chat_response[r].message = response[r]
            /\ chat_response[r].trip_data = Null
            /\ \E i \in DOMAIN store :
                  /\ store[i].role = "assistant"
                  /\ store[i].content = response[r]
                  /\ store[i].session_id = request[r].session_id

\* a finished request whose payload starts as a map and has more opening
\* than closing braces
C4_Witness ==
    \E r \in Slots :
        /\ Replied(r)
        /\ StartsWith(CleanResponse(response[r]), <<LBRACE>>)
        /\ Count(response[r], LBRACE) > Count(response[r], RBRACE)
        /\ outcome[r] = "ok"
        /\ chat_response[r].trip_data = Null

\* the request of slot r has composed its prompt
Composed(r) == pc[r] \in {"llm", "insert_ai", "done"}

\* the payload the replay read from turn m, when it is a map
PayloadOf(m) == IF m.role = "assistant" THEN TrackerPayload(m.content) ELSE Null

HasField(m, k) == PayloadOf(m).kind = "dict" /\ k \in DOMAIN PayloadOf(m).fields

HasValue(m, k) == HasField(m, k) /\ PayloadOf(m).fields[k] # ""

\* C5 as stated: the recovered destination (origin) is the "to" ("from")
\* field of the latest replayed assistant turn whose payload contains that
\* field.
C5_LatestFieldWins ==
    \A r \in Slots :
        Composed(r) =>
            LET prior == ButLast(messages[r])
                tos == {i \in DOMAIN prior : HasField(prior[i], "to")}
                froms == {i \in DOMAIN prior : HasField(prior[i], "from")}
            IN  /\ tos # {} =>
                      context[r].current_destination = PayloadOf(prior[Max(tos)]).fields["to"]
                /\ froms # {} =>
                      context[r].current_origin = PayloadOf(prior[Max(froms)]).fields["from"]

\* C5 amended: the recovered destination (origin) is the "to" ("from") field
\* of the latest replayed assistant turn whose payload holds a non-empty value
\* for that field; it is unset when there is no such turn.
C5_LatestNonEmptyFieldWins ==
    \A r \in Slots :
        Composed(r) =>
            LET prior == ButLast(messages[r])
                tos == {i \in DOMAIN prior : HasValue(prior[i], "to")}
                froms == {i \in DOMAIN prior : HasValue(prior[i], "from")}
            IN  /\ context[r].current_destination =
                      IF tos = {} THEN None ELSE PayloadOf(prior[Max(tos)]).fields["to"]
                /\ context[r].current_origin =
                      IF froms = {} THEN None ELSE PayloadOf(prior[Max(froms)]).fields["from"]

\* two replayed turns set different destinations and the later one is recovered
C5_Witness ==
    \E r \in Slots :
        /\ Composed(r)
        /\ \E i, j \in DOMAIN ButLast(messages[r]) :
              /\ i < j
              /\ HasValue(messages[r][i], "to") /\ HasValue(messages[r][j], "to")
              /\ PayloadOf(messages[r][i]).fields["to"] = "Queenstown"
              /\ PayloadOf(messages[r][j]).fields["to"] = "Paihia"
        /\ context[r].current_destination = "Paihia"

Last(s) == s[Len(s)]

\* C6: the user turn is inserted before the LLM call is made, an assistant
\* turn is inserted only by a request that received a reply, and the step in
\* which the call fails leaves the store as it is, the user turn of the
\* request in it.
C6_FailedCallLeavesUserTurn ==
    [][\A r \in Slots :
          /\ llm_calls'[r] > llm_calls[r] =>
                \E i \in DOMAIN store : store[i] = user_message[r]
          /\ (pc[r] = "llm" /\ outcome'[r] = "http_500") =>
                /\ store' = store
                /\ Count(store, user_message[r]) = 1
                /\ ai_message'[r] = NoMessage
          /\ (store' # store /\ Last(store').role = "assistant") =>
                \E q \in Slots :
                    /\ pc[q] = "insert_ai"
                    /\ store' = Append(store, ai_message[q])
                    /\ ai_message[q].content = response[q]
                    /\ llm_calls[q] = 1]_vars

\* a failed request whose user turn is the last stored turn of its session
C6_Witness ==
    \E r \in Slots :
        /\ pc[r] = "done" /\ outcome[r] = "http_500"
        /\ LET mine == SelectSeq(store, LAMBDA m : m.session_id = request[r].session_id)
           IN  mine # <<>> /\ Last(mine) = user_message[r]
        /\ \E q \in Slots : q # r /\ pc[q] = "insert_ai"

\* C7: a failed LLM call makes the request fail with HTTP 500 and no
\* ChatResponse (an extraction failure returns one, with trip_data null), and
\* a request calls the LLM at most once.
C7_LLMFailureIs500 ==
    \A r \in Slots :
        /\ llm_calls[r] <= 1
        /\ (pc[r] = "done" /\ ai_message[r] = NoMessage) =>
              /\ outcome[r] = "http_500"
              /\ chat_response[r] = NoResponse
              /\ llm_calls[r] = 1
        /\ Replied(r) => outcome[r] = "ok" /\ chat_response[r].message = response[r]

\* a request that failed on its only LLM call
C7_Witness ==
    \E r \in Slots :
        pc[r] = "done" /\ ai_message[r] = NoMessage /\ outcome[r] = "http_500" /\ llm_calls[r] = 1

\* one of the last five fetched turns holds trip or route, in any case
KeywordInLastFive(msgs) ==
    \E i \in DOMAIN msgs :
        /\ i > Len(msgs) - 5
        /\ \E k \in DOMAIN msgs[i].content :
              LET low == Lower(msgs[i].content[k]) IN HasTrip(low) \/ HasRoute(low)

\* C8: when the request is a follow-up and a destination was recovered, the
\* prompt holds the instruction to preserve "from" and "to" with the
\* recovered origin and the recovered destination as their values.
C8_ContinuityNamesPair ==
    \A r \in Slots :
        (Composed(r) /\ KeywordInLastFive(messages[r])
                     /\ context[r].current_destination # None) =>
            Contains(system_prompt[r],
                     <<RULES_PRESERVE_FROM, context[r].current_origin,
                       RULES_PRESERVE_TO, context[r].current_destination>>)

\* the scenario: the plan request, a reply from Auckland to Queenstown, then
\* the request for more hotels
C8_Witness ==
    \E r \in Slots :
        /\ Composed(r)
        /\ Len(messages[r]) = 3
        /\ messages[r][1].content = <<MSG_PLAN>>
        /\ messages[r][2].content = REPLY_TRIP
        /\ request[r].message = <<MSG_HOTELS>>
        /\ Contains(system_prompt[r], <<RULES_PRESERVE_FROM, "Auckland", RULES_PRESERVE_TO, "Queenstown">>)

\* the text of token t names the place v
Mentions(t, v) ==
    \/ t = v
    \/ t \in PairTokens /\ PairValue(t) = v
    \/ t = BASE_RULES /\ v \in {"Auckland", "Queenstown"}
    \/ t = MSG_PLAN /\ v = "Queenstown"

\* C9: a destination or origin recovered by the replay appears in the system
\* prompt of the request, whenever the user message names no new pair.
C9_KnownContextInPrompt ==
    \A r \in Slots :
        (Composed(r) /\ request[r].message = <<MSG_HOTELS>>) =>
            /\ context[r].current_destination # None =>
                  \E i \in DOMAIN system_prompt[r] :
                      Mentions(system_prompt[r][i], context[r].current_destination)
            /\ context[r].current_origin # None =>
                  \E i \in DOMAIN system_prompt[r] :
                      Mentions(system_prompt[r][i], context[r].current_origin)

HasContinuityBlock(prompt) == \E i \in DOMAIN prompt : prompt[i] = RULES_PRESERVE_FROM

HasPlainBlock(prompt) == \E i \in DOMAIN prompt : prompt[i] = PLAIN_CONTEXT

\* C10 as stated: the continuity block is injected if and only if one of the
\* last 5 turns holds trip or route, compared case-insensitively.
C10_FollowUpIffKeyword ==
    \A r \in Slots :
        Composed(r) => (HasContinuityBlock(system_prompt[r]) <=> KeywordInLastFive(messages[r]))

\* C10 amended: for a request with at least one prior turn, the continuity
\* block is injected if and only if one of the last 5 fetched turns (the
\* request's own user turn included) holds trip or route, in any case, and the
\* plain CONTEXT block otherwise; without a prior turn neither is injected.
C10_FollowUpIffKeywordGivenHistory ==
    \A r \in Slots :
        Composed(r) =>
            IF Len(messages[r]) >= 2
            THEN /\ HasContinuityBlock(system_prompt[r]) <=> KeywordInLastFive(messages[r])
                 /\ HasPlainBlock(system_prompt[r]) <=> ~KeywordInLastFive(messages[r])
            ELSE ~HasContinuityBlock(system_prompt[r]) /\ ~HasPlainBlock(system_prompt[r])

\* the keyword occurs in the session, in upper case, but before the last 5
\* turns: the plain block is injected
C10_Witness ==
    \E r \in Slots :
        /\ Composed(r)
        /\ Len(messages[r]) = 6
        /\ messages[r][1].content = <<MSG_PLAN>>
        /\ ~KeywordInLastFive(messages[r])
        /\ HasPlainBlock(system_prompt[r])

\* C11: the store is append-only over chat and get_chat_history: every step
\* leaves the stored turns as they were, or adds exactly one turn at the end
\* whose id no stored turn carries; no stored turn is updated, removed or
\* duplicated, and a step that returns a listing leaves the store unchanged
C11_AppendOnly ==
    [][ /\ Len(store') \in {Len(store), Len(store) + 1}
        /\ SubSeq(store', 1, Len(store)) = store
        /\ Len(store') = Len(store) + 1 =>
               \A i \in 1..Len(store) : store[i].id # store'[Len(store')].id
        /\ history' # history => store' = store ]_vars

\* a listing of two turns has been returned and the store has grown since
C11_Witness ==
    /\ history.session_id = "s1"
    /\ Len(history.turns) = 2
    /\ Len(store) > 2
    /\ \E i \in 1..Len(store) : store[i].role = "assistant"

\* the stored turns of a session in the order of their insertion
SessionTurns(session_id) == SelectSeq(store, LAMBDA m : m.session_id = session_id)

\* C12 as stated: a listing is the stored turns of the session in the order
\* of their insertion, overlapping requests included
C12_ListedInInsertionOrder ==
    [][ history' # history => history'.turns = SessionTurns(history'.session_id) ]_vars

\* C12 amended: a listing holds the stored turns of the session (the first
\* ListLimit by timestamp), each once, in ascending order of the timestamp
\* taken when the turn was constructed; it is the insertion order whenever
\* the turns were inserted in the order of their construction, which is the
\* case as long as the requests ran one after another (the second slot unused)
C12_ListedByTimestamp ==
    [][ history' # history =>
          LET h == history'.turns
              st == SessionTurns(history'.session_id)
          IN  /\ \A i, j \in 1..Len(h) : i < j => h[i].timestamp <= h[j].timestamp
              /\ Len(h) = IF Len(st) < ListLimit THEN Len(st) ELSE ListLimit
              /\ \A i \in 1..Len(h) : Count(st, h[i]) = 1 /\ Count(h, h[i]) = 1
              /\ (\A i, j \in 1..Len(st) : i < j => st[i].timestamp <= st[j].timestamp)
                    => h = st
              /\ pc[2] = "idle" => h = st ]_vars

\* a listing of a session whose overlapping requests inserted their turns in
\* another order than they constructed them
C12_Witness ==
    /\ Len(history.turns) >= 2
    /\ Len(history.turns) = Len(SessionTurns(history.session_id))
    /\ history.turns # SessionTurns(history.session_id)

\* two requests that fetched the same turns (role and content) and carry
\* the same user message
SameInputs(r1, r2) ==
    /\ Composed(r1) /\ Composed(r2)
    /\ HistoryEntries(messages[r1]) = HistoryEntries(messages[r2])
    /\ request[r1].message = request[r2].message

\* C13 as stated: two requests that see the same stored turn sequence and the
\* same user message compose the same system prompt
C13_SamePromptForSameTurns ==
    \A r1, r2 \in Slots : SameInputs(r1, r2) => system_prompt[r1] = system_prompt[r2]

\* C13 amended: two requests that see the same stored turn sequence and the
\* same user message, and whose base prompts were rendered on the same day,
\* compose the same system prompt; the date of the request is an input of
\* the prompt besides the recovered context, the history and the message
C13_SamePromptForSameTurnsAndDay ==
    \A r1, r2 \in Slots :
        SameInputs(r1, r2) /\ system_prompt[r1][2] = system_prompt[r2][2]
            => system_prompt[r1] = system_prompt[r2]

\* two requests in flight that fetched the same turns, carry the same message
\* and ran on the same day, both with earlier turns to put into the prompt
C13_Witness ==
    /\ SameInputs(1, 2)
    /\ system_prompt[1][2] = system_prompt[2][2]
    /\ Len(messages[1]) >= 2
    /\ Len(system_prompt[1]) > Len(BasePrompt("November 05, 2026"))

AsMap(v) == IF v.kind = "dict" THEN v ELSE Null

\* C15: for every replayed assistant turn the payload the replay obtains from
\* its text is the payload the Response Extractor returns for the same text,
\* and the latest turn whose extracted trip_data holds a destination is the
\* one whose destination the replay recovers
C15_ReplayMatchesExtractor ==
    \A r \in Slots :
        Composed(r) =>
            LET prior == ButLast(messages[r])
                replies == {i \in DOMAIN prior : prior[i].role = "assistant"}
                tos == {i \in replies :
                          LET t == ExtractTripData(prior[i].content)
                          IN  t.kind = "dict" /\ Truthy(Get(t, "to"))}
            IN  /\ \A i \in replies :
                      AsMap(TrackerPayload(prior[i].content)) = AsMap(ExtractTripData(prior[i].content))
                /\ tos # {} =>
                      context[r].current_destination =
                          Get(ExtractTripData(prior[Max(tos)].content), "to")

\* a turn the replay extracts no map from: not an assistant turn, no payload
\* in one of the shapes the replay knows, a malformed payload, or a payload
\* that is not a map
FailsExtraction(m) == m.role # "assistant" \/ TrackerPayload(m.content).kind # "dict"

Recovered(ctx) == <<ctx.current_origin, ctx.current_destination, ctx.last_trip_json>>

\* C16: a prior turn that fails extraction is skipped without effect: what a
\* request recovered is what the replay of its prior turns without the
\* failing ones recovers, and origin, destination and last payload after a
\* failing turn are those before it
C16_FailedTurnSkipped ==
    \A r \in Slots :
        Composed(r) =>
            LET prior == ButLast(messages[r])
            IN  /\ Recovered(context[r]) =
                      Recovered(Replay(EmptyContext,
                                       SelectSeq(prior, LAMBDA m : ~FailsExtraction(m))))
                /\ \A k \in 1..Len(prior) :
                      FailsExtraction(prior[k]) =>
                          Recovered(Replay(EmptyContext, SubSeq(prior, 1, k))) =
                              Recovered(Replay(EmptyContext, SubSeq(prior, 1, k - 1)))

\* the replay recovered a pair, met a reply holding an array and one cut off,
\* kept the origin, and took the destination of a later reply
C16_Witness ==
    /\ Composed(1)
    /\ Len(messages[1]) = 7
    /\ messages[1][2].content = REPLY_TRIP
    /\ messages[1][4].content \in {REPLY_LIST, REPLY_BROKEN}
    /\ messages[1][6].content = REPLY_PAIHIA
    /\ context[1].current_origin = "Auckland"
    /\ context[1].current_destination = "Paihia"

\* C17: when the replay recovered no destination, the prompt carries no
\* continuity constraint: no instruction to preserve or include a from/to
\* pair, and after the base prompt nothing but the history excerpt and the
\* user message, when there are earlier turns
C17_NoDestinationNoConstraint ==
    \A r \in Slots :
        (Composed(r) /\ context[r].current_destination = None) =>
            /\ ~HasContinuityBlock(system_prompt[r])
            /\ \E today \in Dates :
                  system_prompt[r] \in
                      {BasePrompt(today),
                       PlainContextPrompt(BasePrompt(today),
                                          RecentContext(context[r].conversation_context),
                                          request[r].message)}

\* the history excerpt of a prompt: what stands between the heading of
\* either context block and the line that introduces the user message
Excerpt(prompt) ==
    LET heads == {i \in DOMAIN prompt :
                    prompt[i] \in {"\n\nCONVERSATION HISTORY:\n", PLAIN_CONTEXT}}
        ends == {i \in DOMAIN prompt :
                    prompt[i] \in {"\n\nUser's current request: ", "\n\nRespond to: "}}
    IN  SubSeq(prompt, Min(heads) + 1, Min(ends) - 1)

\* role and content of the turns, one after the other, a line break between
RECURSIVE TurnsText(_)
TurnsText(msgs) ==
    IF msgs = <<>> THEN <<>>
    ELSE <<Head(msgs).role, ": ">> \o Head(msgs).content
         \o (IF Len(msgs) > 1 THEN <<NL>> ELSE <<>>) \o TurnsText(Tail(msgs))

\* C18: the history excerpt of a prompt is the text of the last 3 exchanges:
\* role and content of each of the last 6 prior turns, in order, and of no
\* earlier turn; of all prior turns when they are fewer (a final line break
\* apart)
C18_ExcerptIsLastSixTurns ==
    \A r \in Slots :
        (Composed(r) /\ Len(messages[r]) >= 2) =>
            LET expected == TurnsText(LastN(ButLast(messages[r]), 6))
            IN  Excerpt(system_prompt[r]) \in {expected, expected \o <<NL>>}

\* C19: in a session used by one request at a time, whatever its length, the
\* turns a request fetched end with the user turn it inserted; the turns
\* before it are all the earlier turns of the session, and the message list
\* sent to the completion ends with the message of the request
C19_CurrentMessageIsLast ==
    \A r \in Slots :
        Composed(r) =>
            /\ Last(messages[r]) = user_message[r]
            /\ \A i \in DOMAIN store :
                  (store[i].session_id = request[r].session_id
                      /\ store[i].timestamp < user_message[r].timestamp)
                  => \E k \in 1..Len(messages[r]) - 1 : messages[r][k] = store[i]
            /\ Last(openai_messages[r]) = [role |-> "user", content |-> request[r].message]

\* C20: when two requests on the same session overlap, each treats its own
\* user message as the current one: the last of the turns it fetched is the
\* user turn it inserted itself
C20_OwnMessageIsCurrent ==
    \A r, q \in Slots :
        (r # q /\ Composed(r) /\ pc[q] # "idle"
             /\ request[q].session_id = request[r].session_id)
        => Last(messages[r]).id = user_message[r].id

\* the sessions other than the given one
OtherSessions(session_id) == Sessions \ {session_id}

\* C21: sessions are isolated. A step that adds a turn adds it to the session
\* of the request that took the step and leaves the turns of every other
\* session as they were; the step that fetches reads turns of its own session
\* only, and the context it recovers, the prompt it composes and the message
\* list it sends are those it would get from a store holding the turns of its
\* own session alone; a listing holds turns of the listed session only
C21_SessionsIsolated ==
    [][ /\ Len(store') = Len(store) + 1 =>
              \E r \in Slots :
                  /\ pc'[r] # pc[r]
                  /\ store'[Len(store')].session_id = request[r].session_id
                  /\ \A s \in OtherSessions(request[r].session_id) :
                        SelectSeq(store', LAMBDA m : m.session_id = s) = SessionTurns(s)
        /\ \A r \in Slots :
              (pc[r] = "find" /\ pc'[r] = "llm") =>
                  LET s == request[r].session_id
                      own == FindBySession(SessionTurns(s), s, FetchLimit)
                  IN  /\ \A i \in DOMAIN messages'[r] : messages'[r][i].session_id = s
                      /\ messages'[r] = own
                      /\ context'[r] = RecoverContext(own)
                      /\ openai_messages'[r] = HistoryEntries(own)
                      /\ \E today \in Dates :
                            system_prompt'[r] =
                                ComposePrompt(today, RecoverContext(own), own, request[r].message)
                      /\ \A q \in OtherSessions(s) : SessionTurns(q)' = SessionTurns(q)
        /\ history' # history =>
              /\ \A i \in DOMAIN history'.turns :
                    history'.turns[i].session_id = history'.session_id
              /\ store' = store ]_vars

\* a request of s1 ran after s2 had stored a reply naming a destination: it
\* fetched its own turn only and recovered nothing, and s1 was listed
C21_Witness ==
    /\ Composed(1)
    /\ request[1].session_id = "s1"
    /\ \E i \in DOMAIN store :
          /\ store[i].session_id = "s2"
          /\ store[i].content = REPLY_PAIHIA
          /\ store[i].timestamp < user_message[1].timestamp
    /\ Len(messages[1]) = 1
    /\ context[1] = EmptyContext
    /\ history.session_id = "s1"
    /\ Len(history.turns) = 1
    /\ Len(store) >= 3

====
